---- MODULE Spec2Model ----
(***************************************************************************)
(* Model of ops/scripts/deploy_agents.py: the deploy and destroy commands  *)
(* that provision and tear down per-task git worktrees, branches and a     *)
(* tmux session.  The git repository, the worktree root directory and the  *)
(* tmux server are the external state; one run of a command is a sequence  *)
(* of steps, one per external call or check, in the order of the code.     *)
(*                                                                         *)
(* Strings are sequences of one-character strings, so that the f-strings   *)
(* of the code are concatenations.  Task indices are zero-based as in the  *)
(* code; TLA+ sequences are one-based, hence the "+ 1" in the lookups.     *)
(***************************************************************************)
EXTENDS Integers, Sequences, FiniteSets, TLC

\* ---------------------------------------------------------------- bounds
\* longest of the short task lists
MaxTasks == 2
\* external commands that may exit non-zero for reasons of their own, per behaviour
MaxFail == 2

\* ------------------------------------------------------- identity, names
\* string.ascii_lowercase
letters ==
  << "a", "b", "c", "d", "e", "f", "g", "h", "i", "j", "k", "l", "m",
     "n", "o", "p", "q", "r", "s", "t", "u", "v", "w", "x", "y", "z" >>

ValueError == "ValueError"

\* get_letter(i): letters[i], or the ValueError raised for i >= len(letters)
get_letter(k) == IF k >= Len(letters) THEN ValueError ELSE letters[k + 1]

\* f"{args.branch_prefix}/{a}/{task}"
BranchName(prefix, a, task) == prefix \o <<"/">> \o <<a>> \o <<"/">> \o task

\* wt_root / f"{repo}__{args.branch_prefix}-{a}-{task}" (the path below wt_root)
WtDirName(repo, prefix, a, task) ==
  repo \o <<"_", "_">> \o prefix \o <<"-">> \o <<a>> \o <<"-">> \o task

\* --repo, --branch-prefix: the same in every run of a behaviour
Repo == <<"r">>
BranchPrefix == <<"p">>

\* the task at (zero-based) position k of the task lists of the model
TaskAt(k) == IF k % 2 = 0 THEN <<"x">> ELSE <<"y">>

TaskList(n) == [k \in 1..n |-> TaskAt(k - 1)]

\* --tasks: the short lists, and one list with one task more than there are letters
TaskLists == {TaskList(n) : n \in 1..MaxTasks} \cup {TaskList(Len(letters) + 1)}

\* ------------------------------------------------------------- variables
VARIABLES
  tasks,        \* args.tasks, parsed
  branches,     \* refs/heads/* of the repository
  dirs,         \* directories below wt_root
  subinit,      \* worktrees whose submodules are initialised
  idname,       \* <<worktree, user.name>> of the worktrees' local configuration
  idemail,      \* <<worktree, user.email>> of the worktrees' local configuration
  rootDir,      \* wt_root exists
  session,      \* the tmux session named args.session or repo
  cmd,          \* args.command of the run in progress
  start_codex,  \* args.start_codex
  keep_flag,    \* --keep-branches given on the command line
  pc,           \* position of the run in the code
  i,            \* loop index
  branch_rc,    \* branch_check.returncode
  log,          \* external calls and checks of the run in progress, in order
  start,        \* external state when the run in progress began
  prev,         \* the run before this one
  nfail,        \* external commands that failed for reasons of their own
  naming        \* two inputs of the naming scheme and the names derived for them

ext == <<branches, dirs, subinit, idname, idemail, rootDir, session>>
args == <<tasks, cmd, start_codex, keep_flag>>
hist == <<start, prev, naming>>
vars == <<ext, args, pc, i, branch_rc, log, hist, nfail>>

\* the names the run derives for task k
Branch(k) == BranchName(BranchPrefix, get_letter(k), tasks[k + 1])
WtDir(k) == WtDirName(Repo, BranchPrefix, get_letter(k), tasks[k + 1])
WinName(k) == BranchName(BranchPrefix, get_letter(k), tasks[k + 1])

\* --email-domain
EmailDomain == <<"l">>

\* branch.replace('/', '-')
ReplaceSlash(str) == [k \in 1..Len(str) |-> IF str[k] = "/" THEN "-" ELSE str[k]]

\* f"{branch.replace('/', '-') }@{args.email_domain}"
Email(branch) == ReplaceSlash(branch) \o <<"@">> \o EmailDomain

\* positions whose branches and workspaces may exist before the first run
Universe == 0..(MaxTasks - 1)
UBranch(k) == BranchName(BranchPrefix, get_letter(k), TaskAt(k))
UDir(k) == WtDirName(Repo, BranchPrefix, get_letter(k), TaskAt(k))

\* ------------------------------------------------------------------ tmux
NoSession == [exists |-> FALSE, windows |-> <<>>]

\* the window a new session starts with, named by tmux after the shell
DefaultWindow == <<"s", "h">>

Pane(cwd) == [cwd |-> cwd, keys |-> <<>>]

Window(name, cwd) == [name |-> name, panes |-> <<Pane(cwd)>>, active |-> 0]

\* new-session -d -s session -c wt_root
TmuxNewSession == [exists |-> TRUE, windows |-> <<Window(DefaultWindow, <<>>)>>]

HasWindow(s, w) == s.exists /\ w >= 0 /\ w < Len(s.windows)
HasPane(s, w, p) == HasWindow(s, w) /\ p >= 0 /\ p < Len(s.windows[w + 1].panes)

\* rename-window -t session:w name
TmuxRename(s, w, name) ==
  [s EXCEPT !.windows[w + 1].name = name]

\* new-window -t session -n name -c cwd: the next free index
TmuxNewWindow(s, name, cwd) ==
  [s EXCEPT !.windows = Append(@, Window(name, cwd))]

\* send-keys -t session:w.p text Enter
TmuxSendKeys(s, w, p, text) ==
  [s EXCEPT !.windows[w + 1].panes[p + 1].keys = Append(@, text)]

\* the pane "session:w" names: the active pane of window w
ActivePane(s, w) == s.windows[w + 1].active

\* split-window -t session:w -h -c cwd: a new pane after the active one, made active
TmuxSplit(s, w, cwd) ==
  LET win == s.windows[w + 1]
      a == win.active
      ps == win.panes
      new == SubSeq(ps, 1, a + 1) \o <<Pane(cwd)>> \o SubSeq(ps, a + 2, Len(ps))
  IN [s EXCEPT !.windows[w + 1] = [win EXCEPT !.panes = new, !.active = a + 1]]

\* ------------------------------------------------------------- the runs
Entry(op, t, res, tgt) == [op |-> op, task |-> t, res |-> res, tgt |-> tgt]

Logged(op, t, res, tgt) == Append(log, Entry(op, t, res, tgt))

\* how a command ended: "refused" when the tool cannot do it in the state it
\* finds (pre is false), "fail" when it exits non-zero for another reason
Result(pre, ok) == IF ~pre THEN "refused" ELSE IF ok THEN "ok" ELSE "fail"

\* exit statuses an external command may have by itself: TRUE is zero
Outcomes == IF nfail < MaxFail THEN {TRUE, FALSE} ELSE {TRUE}

Snapshot == [branches |-> branches, dirs |-> dirs, session |-> session.exists,
             rootDir |-> rootDir]

NoRun == [cmd |-> "none", result |-> "none", clean |-> FALSE, keep_flag |-> FALSE,
          start_codex |-> FALSE]

N == Len(tasks)

\* the tasks that get a letter
Named == {k \in 0..(N - 1) : get_letter(k) # ValueError}

\* nothing of the task list exists: no session, no branch, no workspace
Clean(s) ==
  /\ ~s.session
  /\ \A k \in Named : Branch(k) \notin s.branches /\ WtDir(k) \notin s.dirs

\* The state before the first invocation. Branches and workspaces of the first
\* MaxTasks positions may exist in any combination, existing workspaces being
\* fully set up, and the session may exist. Behaviours over the long task list
\* start with nothing or everything of those positions present and with the
\* budget of failing commands spent: their runs are left by ValueError alone.
Init ==
  /\ tasks \in TaskLists
  /\ \E bs \in SUBSET Universe, ds \in SUBSET Universe :
       /\ N > MaxTasks => bs = ds /\ bs \in {{}, Universe}
       /\ branches = {UBranch(k) : k \in bs}
       /\ dirs = {UDir(k) : k \in ds}
       /\ subinit = dirs
       /\ idname = {<<UDir(k), UBranch(k)>> : k \in ds}
       /\ idemail = {<<UDir(k), Email(UBranch(k))>> : k \in ds}
  /\ rootDir \in {d \in BOOLEAN : dirs # {} => d}
  /\ session \in {NoSession, TmuxNewSession}
  /\ cmd = "none"
  /\ start_codex = FALSE
  /\ keep_flag = FALSE
  /\ pc = "idle"
  /\ i = 0
  /\ branch_rc = 0
  /\ log = <<>>
  /\ start = Snapshot
  /\ prev = NoRun
  /\ nfail = IF N > MaxTasks THEN MaxFail ELSE 0
  /\ naming = <<>>

\* __main__: deploy subcommand, build_worktree_and_deploy_agents(args)
StartDeploy ==
  /\ pc = "idle"
  /\ \E c \in BOOLEAN : start_codex' = c
  /\ cmd' = "deploy"
  /\ keep_flag' = FALSE
  /\ pc' = "d_mkdir"
  /\ i' = 0
  /\ log' = <<>>
  /\ start' = Snapshot
  /\ UNCHANGED <<ext, tasks, branch_rc, prev, nfail, naming>>

\* wt_root.mkdir(parents=True, exist_ok=True)
MkRoot ==
  /\ pc = "d_mkdir"
  /\ rootDir' = TRUE
  /\ log' = Logged("mkdir", -1, "ok", <<>>)
  /\ pc' = "d_loop"
  /\ i' = 0
  /\ UNCHANGED <<branches, dirs, subinit, idname, idemail, session, args,
                 branch_rc, hist, nfail>>

\* the workspace loop left after its first task
WtLoopHead_Early ==
  /\ pc = "d_loop"
  /\ pc' = IF i >= 1 THEN "d_session"
           ELSE IF get_letter(i) = ValueError THEN "error"
           ELSE "d_branch"
  /\ UNCHANGED <<ext, args, i, branch_rc, log, hist, nfail>>

\* for i, task in enumerate(tasks): a = get_letter(i)
WtLoopHead ==
  /\ pc = "d_loop"
  /\ pc' = IF i >= N THEN "d_session"
           ELSE IF get_letter(i) = ValueError THEN "error"
           ELSE "d_branch"
  /\ UNCHANGED <<ext, args, i, branch_rc, log, hist, nfail>>

\* A command that exits non-zero is taken to have changed nothing, and tmux is
\* taken to number windows and panes from 0 (its default base-index).
\*
\* sh(cmd): subprocess.run(..., check=True) of a git command for task i. The
\* command succeeds when git can do it (pre) and nothing else makes it exit
\* non-zero; CalledProcessError propagates out of the run otherwise.
GitStep(op, pre, nextpc, nexti) ==
  \E ok \in Outcomes :
    LET success == ok /\ pre IN
    /\ log' = Logged(op, i, Result(pre, ok), <<>>)
    /\ pc' = IF success THEN nextpc ELSE "failed"
    /\ i' = IF success THEN nexti ELSE i
    /\ nfail' = IF pre /\ ~ok THEN nfail + 1 ELSE nfail
    /\ branches' = IF success /\ op = "worktree-add-b"
                   THEN branches \cup {Branch(i)} ELSE branches
    /\ dirs' = IF success /\ op \in {"worktree-add-b", "worktree-add"}
               THEN dirs \cup {WtDir(i)} ELSE dirs
    /\ subinit' = IF success /\ op = "submodule-update"
                  THEN subinit \cup {WtDir(i)} ELSE subinit
    /\ idname' = IF success /\ op = "config-name"
                 THEN {e \in idname : e[1] # WtDir(i)} \cup {<<WtDir(i), Branch(i)>>}
                 ELSE idname
    /\ idemail' = IF success /\ op = "config-email"
                  THEN {e \in idemail : e[1] # WtDir(i)}
                       \cup {<<WtDir(i), Email(Branch(i))>>}
                  ELSE idemail
    /\ UNCHANGED <<rootDir, session, args, branch_rc, hist>>

\* check=True left out: the exit status is ignored and the run goes on
TmuxStep_Unchecked(op, tgt, pre, after, nextpc, nexti) ==
  \E ok \in Outcomes :
    LET success == ok /\ pre IN
    /\ log' = Logged(op, IF op \in {"new-session", "attach-session"} THEN -1 ELSE i,
                     Result(pre, ok), tgt)
    /\ pc' = nextpc
    /\ i' = nexti
    /\ nfail' = IF pre /\ ~ok THEN nfail + 1 ELSE nfail
    /\ session' = IF success THEN after ELSE session
    /\ UNCHANGED <<branches, dirs, subinit, idname, idemail, rootDir, args,
                   branch_rc, hist>>

\* tmux(cmd): sh(["tmux", *cmd]) for task i, addressed to tgt. The command
\* succeeds when its target exists (pre) and nothing else makes it exit non-zero.
TmuxStep(op, tgt, pre, after, nextpc, nexti) ==
  \E ok \in Outcomes :
    LET success == ok /\ pre IN
    /\ log' = Logged(op, IF op \in {"new-session", "attach-session"} THEN -1 ELSE i,
                     Result(pre, ok), tgt)
    /\ pc' = IF success THEN nextpc ELSE "failed"
    /\ i' = IF success THEN nexti ELSE i
    /\ nfail' = IF pre /\ ~ok THEN nfail + 1 ELSE nfail
    /\ session' = IF success THEN after ELSE session
    /\ UNCHANGED <<branches, dirs, subinit, idname, idemail, rootDir, args,
                   branch_rc, hist>>

\* the `continue` left out: the loop body goes on after the message
SkipRest_FallThrough(found) == FALSE

\* `if <found>: print(...); continue`: the rest of the loop body is skipped
SkipRest(found) == found

\* a reference that never resolves (refs/heads/{task}, say): always "not found"
ShowRef_NotFound(branch) == 1

\* git show-ref --verify refs/heads/{branch}: the return code
ShowRef(branch) == IF branch \in branches THEN 0 ELSE 1

\* branch_check = subprocess.run([git show-ref ...]); if returncode == 0: continue
BranchCheck ==
  /\ pc = "d_branch"
  /\ branch_rc' = ShowRef(Branch(i))
  /\ log' = Logged("show-ref", i, IF branch_rc' = 0 THEN "present" ELSE "absent", <<>>)
  /\ pc' = IF SkipRest(branch_rc' = 0) THEN "d_loop" ELSE "d_dir"
  /\ i' = IF SkipRest(branch_rc' = 0) THEN i + 1 ELSE i
  /\ UNCHANGED <<ext, args, hist, nfail>>

\* the test of the directory dropped: the run goes on to worktree add
DirCheck_NoSkip ==
  /\ pc = "d_dir"
  /\ LET found == WtDir(i) \in dirs IN
     /\ log' = Logged("exists", i, IF found THEN "present" ELSE "absent", <<>>)
     /\ pc' = "d_add"
     /\ i' = i
  /\ UNCHANGED <<ext, args, branch_rc, hist, nfail>>

\* if wt_dir.exists(): continue
DirCheck ==
  /\ pc = "d_dir"
  /\ LET found == WtDir(i) \in dirs IN
     /\ log' = Logged("exists", i, IF found THEN "present" ELSE "absent", <<>>)
     /\ pc' = IF SkipRest(found) THEN "d_loop" ELSE "d_add"
     /\ i' = IF SkipRest(found) THEN i + 1 ELSE i
  /\ UNCHANGED <<ext, args, branch_rc, hist, nfail>>

\* git worktree add [-b branch] wt_dir [branch | HEAD]
WorktreeAdd ==
  /\ pc = "d_add"
  /\ IF branch_rc = 0
     THEN GitStep("worktree-add", Branch(i) \in branches /\ WtDir(i) \notin dirs,
                  "d_sub", i)
     ELSE GitStep("worktree-add-b", Branch(i) \notin branches /\ WtDir(i) \notin dirs,
                  "d_sub", i)

\* git submodule update --init --recursive, cwd=wt_dir
SubmoduleInit ==
  /\ pc = "d_sub"
  /\ GitStep("submodule-update", WtDir(i) \in dirs, "d_name", i)

\* git config user.name branch, cwd=wt_dir
ConfigName ==
  /\ pc = "d_name"
  /\ GitStep("config-name", WtDir(i) \in dirs, "d_email", i)

\* git config user.email ..., cwd=wt_dir; the end of the loop body
ConfigEmail ==
  /\ pc = "d_email"
  /\ GitStep("config-email", WtDir(i) \in dirs, "d_loop", i + 1)

\* tmux new-session -d -s session -c wt_root: tmux refuses a duplicate session
NewSession ==
  /\ pc = "d_session"
  /\ TmuxStep("new-session", <<>>, ~session.exists, TmuxNewSession, "w_loop", 0)

\* every window addressed as f"{session}:0"
WinTarget_First(k) == 0

\* f"{session}:{i}" (f"{session}:0" where i == 0): the window index addressed
WinTarget(k) == k

\* the window loop left after its first task
WinLoopHead_Early ==
  /\ pc = "w_loop"
  /\ pc' = IF i >= 1 THEN "d_attach"
           ELSE IF get_letter(i) = ValueError THEN "error"
           ELSE IF i = 0 THEN "w_rename"
           ELSE "w_new"
  /\ UNCHANGED <<ext, args, i, branch_rc, log, hist, nfail>>

\* for i, task in enumerate(tasks): a = get_letter(i); if i == 0: ... else: ...
WinLoopHead ==
  /\ pc = "w_loop"
  /\ pc' = IF i >= N THEN "d_attach"
           ELSE IF get_letter(i) = ValueError THEN "error"
           ELSE IF i = 0 THEN "w_rename"
           ELSE "w_new"
  /\ UNCHANGED <<ext, args, i, branch_rc, log, hist, nfail>>

\* tmux rename-window -t session:0 win_name
RenameWindow ==
  /\ pc = "w_rename"
  /\ LET w == WinTarget(0) IN
     TmuxStep("rename-window", <<w>>, HasWindow(session, w),
              TmuxRename(session, w, WinName(i)), "w_cd", i)

\* tmux send-keys -t session:0 "cd {wt_dir}" Enter
SendCd ==
  /\ pc = "w_cd"
  /\ LET w == WinTarget(0) IN
     TmuxStep("send-keys-cd", <<w>>, HasWindow(session, w),
              TmuxSendKeys(session, w, ActivePane(session, w), <<"cd", WtDir(i)>>),
              "w_lazygit", i)

\* tmux new-window -t session -n win_name -c wt_dir
NewWindow ==
  /\ pc = "w_new"
  /\ TmuxStep("new-window", <<>>, session.exists,
              TmuxNewWindow(session, WinName(i), WtDir(i)), "w_lazygit", i)

\* tmux send-keys -t session:i lazygit Enter
SendLazygit ==
  /\ pc = "w_lazygit"
  /\ LET w == WinTarget(i) IN
     TmuxStep("send-keys-lazygit", <<w>>, HasWindow(session, w),
              TmuxSendKeys(session, w, ActivePane(session, w), <<"lazygit">>),
              "w_split", i)

\* `if args.start_codex:` dropped: the right pane is always sent its keys
SplitWindow_Ungated ==
  /\ pc = "w_split"
  /\ LET w == WinTarget(i) IN
     TmuxStep("split-window", <<w>>, HasWindow(session, w),
              TmuxSplit(session, w, WtDir(i)), "w_codex", i)

\* tmux split-window -t session:i -h -c wt_dir; then `if args.start_codex:`
SplitWindow ==
  /\ pc = "w_split"
  /\ LET w == WinTarget(i) IN
     TmuxStep("split-window", <<w>>, HasWindow(session, w),
              TmuxSplit(session, w, WtDir(i)),
              IF start_codex THEN "w_codex" ELSE "w_loop",
              IF start_codex THEN i ELSE i + 1)

\* right_pane = f"{session}:{i}.1"; tmux send-keys -t right_pane codex Enter
SendCodex ==
  /\ pc = "w_codex"
  /\ LET w == WinTarget(i) IN
     TmuxStep("send-keys-codex", <<w, 1>>, HasPane(session, w, 1),
              TmuxSendKeys(session, w, 1, <<"codex">>), "w_prompt", i)

\* tmux send-keys -t right_pane args.codex_read_prompt Enter
SendPrompt ==
  /\ pc = "w_prompt"
  /\ LET w == WinTarget(i) IN
     TmuxStep("send-keys-prompt", <<w, 1>>, HasPane(session, w, 1),
              TmuxSendKeys(session, w, 1, <<"prompt">>), "w_loop", i + 1)

\* tmux attach-session -t session: returns when the operator detaches
Attach ==
  /\ pc = "d_attach"
  /\ TmuxStep("attach-session", <<>>, session.exists, session, "done", i)

\* destroy_p.add_argument("--keep-branches", default=True, action="store_true")
KeepBranchesDefault == TRUE

\* action="store_false": giving the flag turns the value off
keep_branches_StoreFalse == IF keep_flag THEN FALSE ELSE KeepBranchesDefault

\* args.keep_branches as argparse sets it: store_true stores True when the flag
\* is given, and the default otherwise
keep_branches == IF keep_flag THEN TRUE ELSE KeepBranchesDefault

\* __main__: destroy subcommand, destroy_tmux_sessions_and_worktrees(args)
StartDestroy ==
  /\ pc = "idle"
  /\ \E k \in BOOLEAN : keep_flag' = k
  /\ cmd' = "destroy"
  /\ start_codex' = FALSE
  /\ pc' = "x_has"
  /\ i' = 0
  /\ log' = <<>>
  /\ start' = Snapshot
  /\ UNCHANGED <<ext, tasks, branch_rc, prev, nfail, naming>>

\* the test of the return code inverted: 0 when there is no session
HasSessionRc_Inverted == IF session.exists THEN 1 ELSE 0

\* tmux has-session -t session: the return code
HasSessionRc == IF session.exists THEN 0 ELSE 1

\* result = subprocess.run([tmux has-session ...]); if result.returncode == 0: ...
HasSession ==
  /\ pc = "x_has"
  /\ log' = Logged("has-session", -1, IF HasSessionRc = 0 THEN "present" ELSE "absent",
                   <<>>)
  /\ pc' = IF HasSessionRc = 0 THEN "x_kill" ELSE "x_loop"
  /\ i' = 0
  /\ UNCHANGED <<ext, args, branch_rc, hist, nfail>>

\* no try/except around the call: CalledProcessError leaves the run
Caught_Propagates(nextpc) == "failed"

\* where a destroy run goes when an external command exits non-zero: the
\* `except` clauses print and the run goes on
Caught(nextpc) == nextpc

\* tmux kill-session -t session, inside try/except Exception
KillSession ==
  /\ pc = "x_kill"
  /\ \E ok \in Outcomes :
       LET success == ok /\ session.exists IN
       /\ session' = IF success THEN NoSession ELSE session
       /\ log' = Logged("kill-session", -1, Result(session.exists, ok), <<>>)
       /\ pc' = IF success THEN "x_loop" ELSE Caught("x_loop")
       /\ nfail' = IF session.exists /\ ~ok THEN nfail + 1 ELSE nfail
  /\ i' = 0
  /\ UNCHANGED <<branches, dirs, subinit, idname, idemail, rootDir, args,
                 branch_rc, hist>>

\* for i, task in enumerate(tasks): a = get_letter(i)
RmLoopHead ==
  /\ pc = "x_loop"
  /\ pc' = IF i >= N THEN "x_summary"
           ELSE IF get_letter(i) = ValueError THEN "error"
           ELSE "x_dir"
  /\ UNCHANGED <<ext, args, i, branch_rc, log, hist, nfail>>

\* the session looked for again in the loop body, once per task
RmDirCheck_Requery ==
  /\ pc = "x_dir"
  /\ LET found == WtDir(i) \in dirs IN
     /\ log' = log \o <<Entry("has-session", -1,
                              IF HasSessionRc = 0 THEN "present" ELSE "absent", <<>>),
                        Entry("exists", i, IF found THEN "present" ELSE "absent", <<>>)>>
     /\ pc' = IF found THEN "x_rm" ELSE "x_branch"
  /\ UNCHANGED <<ext, args, i, branch_rc, hist, nfail>>

\* if wt_dir.exists(): ... else: print("not found")
RmDirCheck ==
  /\ pc = "x_dir"
  /\ LET found == WtDir(i) \in dirs IN
     /\ log' = Logged("exists", i, IF found THEN "present" ELSE "absent", <<>>)
     /\ pc' = IF found THEN "x_rm" ELSE "x_branch"
  /\ UNCHANGED <<ext, args, i, branch_rc, hist, nfail>>

\* the removal takes every workspace below wt_root, not the task's alone
WorktreeRemove_All ==
  /\ pc = "x_rm"
  /\ \E ok \in Outcomes :
       LET success == ok /\ WtDir(i) \in dirs IN
       /\ dirs' = IF success THEN {} ELSE dirs
       /\ subinit' = IF success THEN {} ELSE subinit
       /\ idname' = IF success THEN {} ELSE idname
       /\ idemail' = IF success THEN {} ELSE idemail
       /\ log' = Logged("worktree-remove", i, Result(WtDir(i) \in dirs, ok), <<>>)
       /\ pc' = IF success THEN "x_branch" ELSE Caught("x_branch")
       /\ nfail' = IF WtDir(i) \in dirs /\ ~ok THEN nfail + 1 ELSE nfail
  /\ UNCHANGED <<branches, rootDir, session, args, i, branch_rc, hist>>

\* the handler of a failed removal leaves the loop
WorktreeRemove_Break ==
  /\ pc = "x_rm"
  /\ \E ok \in Outcomes :
       LET success == ok /\ WtDir(i) \in dirs IN
       /\ dirs' = IF success THEN dirs \ {WtDir(i)} ELSE dirs
       /\ subinit' = IF success THEN subinit \ {WtDir(i)} ELSE subinit
       /\ idname' = IF success THEN {e \in idname : e[1] # WtDir(i)} ELSE idname
       /\ idemail' = IF success THEN {e \in idemail : e[1] # WtDir(i)} ELSE idemail
       /\ log' = Logged("worktree-remove", i, Result(WtDir(i) \in dirs, ok), <<>>)
       /\ pc' = IF success THEN "x_branch" ELSE "x_summary"
       /\ nfail' = IF WtDir(i) \in dirs /\ ~ok THEN nfail + 1 ELSE nfail
  /\ UNCHANGED <<branches, rootDir, session, args, i, branch_rc, hist>>

\* git worktree remove wt_dir, inside try/except CalledProcessError
WorktreeRemove ==
  /\ pc = "x_rm"
  /\ \E ok \in Outcomes :
       LET success == ok /\ WtDir(i) \in dirs IN
       /\ dirs' = IF success THEN dirs \ {WtDir(i)} ELSE dirs
       /\ subinit' = IF success THEN subinit \ {WtDir(i)} ELSE subinit
       /\ idname' = IF success THEN {e \in idname : e[1] # WtDir(i)} ELSE idname
       /\ idemail' = IF success THEN {e \in idemail : e[1] # WtDir(i)} ELSE idemail
       /\ log' = Logged("worktree-remove", i, Result(WtDir(i) \in dirs, ok), <<>>)
       /\ pc' = IF success THEN "x_branch" ELSE Caught("x_branch")
       /\ nfail' = IF WtDir(i) \in dirs /\ ~ok THEN nfail + 1 ELSE nfail
  /\ UNCHANGED <<branches, rootDir, session, args, i, branch_rc, hist>>

\* if not args.keep_branches: git show-ref; if returncode == 0: git branch -D
\* inside try/except CalledProcessError; the end of the loop body
DeleteBranch ==
  /\ pc = "x_branch"
  /\ IF keep_branches
     THEN UNCHANGED <<branches, branch_rc, log, nfail>> /\ pc' = "x_loop"
     ELSE /\ branch_rc' = ShowRef(Branch(i))
          /\ IF branch_rc' = 0
             THEN \E ok \in Outcomes :
                    /\ branches' = IF ok THEN branches \ {Branch(i)} ELSE branches
                    /\ log' = log \o <<Entry("show-ref", i, "present", <<>>),
                                       Entry("branch-D", i,
                                             IF ok THEN "ok" ELSE "fail", <<>>)>>
                    /\ pc' = IF ok THEN "x_loop" ELSE Caught("x_loop")
                    /\ nfail' = IF ok THEN nfail ELSE nfail + 1
             ELSE /\ log' = Logged("show-ref", i, "absent", <<>>)
                  /\ pc' = "x_loop"
                  /\ UNCHANGED <<branches, nfail>>
  /\ i' = i + 1
  /\ UNCHANGED <<dirs, subinit, idname, idemail, rootDir, session, args, hist>>

\* print("\nCleanup complete!")
Summary ==
  /\ pc = "x_summary"
  /\ log' = Logged("summary", -1, "ok", <<>>)
  /\ pc' = "done"
  /\ UNCHANGED <<ext, args, i, branch_rc, hist, nfail>>

\* the run is over: it returned ("done"), or CalledProcessError ("failed") or
\* ValueError ("error") left it
Ended == pc \in {"done", "failed", "error"}

\* the process exits; the next invocation starts from the external state it left
Exit ==
  /\ Ended
  /\ prev' = [cmd |-> cmd, result |-> pc, clean |-> Clean(start),
              keep_flag |-> keep_flag, start_codex |-> start_codex]
  /\ pc' = "idle"
  /\ cmd' = "none"
  /\ start_codex' = FALSE
  /\ keep_flag' = FALSE
  /\ i' = 0
  /\ branch_rc' = 0
  /\ log' = <<>>
  /\ start' = Snapshot
  /\ UNCHANGED <<ext, tasks, nfail, naming>>

DeployNext ==
  \/ StartDeploy \/ MkRoot \/ WtLoopHead \/ BranchCheck \/ DirCheck
  \/ WorktreeAdd \/ SubmoduleInit \/ ConfigName \/ ConfigEmail
  \/ NewSession \/ WinLoopHead \/ RenameWindow \/ SendCd \/ NewWindow
  \/ SendLazygit \/ SplitWindow \/ SendCodex \/ SendPrompt \/ Attach

DestroyNext ==
  \/ StartDestroy \/ HasSession \/ KillSession \/ RmLoopHead \/ RmDirCheck
  \/ WorktreeRemove \/ DeleteBranch \/ Summary

Next == DeployNext \/ DestroyNext \/ Exit

Spec == Init /\ [][Next]_vars

\* ------------------------------------------------------------ properties
LogIdx == 1..Len(log)

\* some call of the run in progress is one of ops
Issued(ops) == \E j \in LogIdx : log[j].op \in ops

\* some call of the run in progress is one of ops, made for task k
IssuedFor(ops, k) == \E j \in LogIdx : log[j].op \in ops /\ log[j].task = k

\* an external command of the run in progress exited non-zero for a reason of its own
Injected == \E j \in LogIdx : log[j].res = "fail"

VcMutating ==
  {"worktree-add", "worktree-add-b", "submodule-update", "config-name", "config-email"}

TmuxCalls ==
  {"new-session", "rename-window", "new-window", "split-window", "send-keys-cd",
   "send-keys-lazygit", "send-keys-codex", "send-keys-prompt", "attach-session",
   "kill-session"}

DestroyMutating == {"kill-session", "worktree-remove", "branch-D"}

Aborted == pc \in {"failed", "error"}

\* the run before this one was a deploy with the same arguments that reached attach
AfterDeploy ==
  /\ prev.cmd = "deploy"
  /\ prev.result = "done"
  /\ cmd = "deploy" => prev.start_codex = start_codex

\* everything a completed deploy leaves behind exists when the run begins
AllPresent(s) ==
  /\ s.session
  /\ \A k \in Named : Branch(k) \in s.branches /\ WtDir(k) \in s.dirs

\* C1: a second deploy run with the same arguments, started in the state a
\* completed deploy run left (branches, workspaces and session all existing),
\* does not fail when no external command fails by itself, and ends with one
\* window per task.
C1_RerunDoesNotFail ==
  (cmd = "deploy" /\ AfterDeploy /\ AllPresent(start) /\ ~Injected)
    => /\ ~Aborted
       /\ pc = "done" => Len(session.windows) = N

\* C2: a deploy run over more tasks than there are letters makes no external
\* call and no mutation: no directory creation, no git call, no tmux call, and
\* the worktree root, the branches and the workspaces stay as they were.
C2_NoCallBeforeConfigError ==
  (cmd = "deploy" /\ N > Len(letters))
    => /\ ~Issued({"mkdir", "show-ref"} \cup VcMutating \cup TmuxCalls)
       /\ rootDir = start.rootDir
       /\ branches = start.branches
       /\ dirs = start.dirs

\* C3 as stated: a destroy run over a task list of any length never aborts.
C3_DestroyNeverAborts == cmd = "destroy" => ~Aborted

\* C3, amended: a destroy run over at most 26 tasks never aborts, whatever the
\* external state and whichever external commands exit non-zero: it always has a
\* next step until it has printed the summary, and by then it has looked at the
\* workspace of every task.
C3_DestroyCompletes ==
  (cmd = "destroy" /\ N <= Len(letters))
    => /\ ~Aborted
       /\ pc # "done" => ENABLED DestroyNext
       /\ pc = "done" =>
            /\ log[Len(log)].op = "summary"
            /\ \A k \in 0..(N - 1) : IssuedFor({"exists"}, k)

\* a destroy run that went on to the summary after a workspace removal failed
C3_Witness ==
  /\ cmd = "destroy"
  /\ pc = "done"
  /\ N = MaxTasks
  /\ \E j \in LogIdx : log[j].op = "worktree-remove" /\ log[j].res = "fail"
                       /\ log[j].task = 0

\* C4: a destroy run started without --keep-branches checks the branch of every
\* task and issues branch -D for every task whose branch exists.
C4_BranchesDeletedWithoutFlag ==
  (cmd = "destroy" /\ ~keep_flag /\ pc = "done")
    => \A k \in 0..(N - 1) :
         /\ IssuedFor({"show-ref"}, k)
         /\ Branch(k) \in start.branches => IssuedFor({"branch-D"}, k)

\* C5: a destroy run started with --keep-branches never issues branch -D and
\* leaves the branches as they were, and it issues worktree remove for every
\* task it has gone through whose workspace directory exists.
C5_KeepBranches ==
  (cmd = "destroy" /\ keep_flag)
    => /\ ~Issued({"branch-D"})
       /\ branches = start.branches
       /\ \A k \in Named :
            (k < i /\ WtDir(k) \in start.dirs) => IssuedFor({"worktree-remove"}, k)

\* a finished destroy run with the flag that removed a workspace whose branch stays
C5_Witness ==
  /\ cmd = "destroy"
  /\ keep_flag
  /\ pc = "done"
  /\ \E k \in Named : /\ Branch(k) \in branches
                      /\ WtDir(k) \in start.dirs
                      /\ WtDir(k) \notin dirs

\* C6: after a successful deploy on a clean target, a destroy run with the same
\* arguments and without --keep-branches, in which no external command fails,
\* ends with the session, every workspace and every branch of the tasks absent.
C6_TeardownReverses ==
  (cmd = "destroy" /\ ~keep_flag /\ pc = "done" /\ AfterDeploy /\ prev.clean
     /\ ~Injected)
    => /\ ~session.exists
       /\ \A k \in Named : Branch(k) \notin branches /\ WtDir(k) \notin dirs

\* C7: the deploy run that follows a successful deploy run on a clean target
\* issues no worktree add, no submodule update and no git config, for any task;
\* every branch exists when it begins.
C7_SecondRunNoGitMutation ==
  (cmd = "deploy" /\ AfterDeploy /\ prev.clean)
    => /\ ~Issued(VcMutating)
       /\ \A k \in Named : Branch(k) \in start.branches

\* the second deploy run has gone through all its tasks
C7_Witness ==
  /\ cmd = "deploy"
  /\ AfterDeploy
  /\ prev.clean
  /\ N = MaxTasks
  /\ pc = "d_session"
  /\ \A k \in 0..(N - 1) : IssuedFor({"show-ref"}, k)

C10_SessionLayout ==
  (cmd = "deploy" /\ pc \in {"d_attach", "done"})
    => /\ session.exists
       /\ Len(session.windows) = N
       /\ \A k \in 0..(N - 1) :
            LET win == session.windows[k + 1] IN
            /\ win.name = BranchName(BranchPrefix, letters[k + 1], tasks[k + 1])
            /\ Len(win.panes) = 2
            /\ win.panes[1].keys =
                 IF k = 0 THEN <<(<<"cd", WtDir(0)>>), <<"lazygit">>>>
                 ELSE <<(<<"lazygit">>)>>
            /\ win.panes[2].keys =
                 IF start_codex THEN <<(<<"codex">>), <<"prompt">>>> ELSE <<>>
       /\ \A j \in LogIdx : log[j].tgt # <<>> => log[j].tgt[1] = log[j].task

\* a successful deploy run over the longest short list, with the right panes started
C10_Witness ==
  /\ cmd = "deploy"
  /\ pc = "done"
  /\ N = MaxTasks
  /\ start_codex
  /\ Len(session.windows) = N

\* C11: in a deploy run, an external command that exits non-zero is the last
\* call of the run, which is then left by CalledProcessError; and nothing is
\* rolled back: what existed when the run began and what the run created before
\* the failure (branches, workspaces, the session) still exists.
C11_AbortOnFailure ==
  cmd = "deploy" =>
    /\ \A j \in LogIdx :
         log[j].res \in {"fail", "refused"} => j = Len(log) /\ pc = "failed"
    /\ start.branches \subseteq branches
    /\ start.dirs \subseteq dirs
    /\ start.session => session.exists
    /\ \A j \in LogIdx :
         /\ (log[j].op = "worktree-add-b" /\ log[j].res = "ok")
              => Branch(log[j].task) \in branches /\ WtDir(log[j].task) \in dirs
         /\ (log[j].op = "new-session" /\ log[j].res = "ok") => session.exists

\* a deploy run left at the second task's submodule update, the first task's
\* branch and workspace created before it
C11_Witness ==
  /\ cmd = "deploy"
  /\ pc = "failed"
  /\ log[Len(log)].op = "submodule-update"
  /\ log[Len(log)].task = 1
  /\ \E j \in LogIdx : log[j].op = "worktree-add-b" /\ log[j].task = 0
  /\ Branch(0) \in branches
  /\ WtDir(1) \in dirs

\* ------------------------------------------------------ the naming scheme
\* longest branch prefix and task of the inputs of the naming scheme
MaxNameLen == 3

\* the strings over one letter and one separator, up to n characters
StringsOver(chars, n) == UNION {[1..len -> chars] : len \in 1..n}

\* --branch-prefix and the tasks: "/" and "-" are characters both may hold,
\* between other characters (git accepts no reference that starts or ends with "/")
NameStrings ==
  {str \in StringsOver({"a", "/"}, MaxNameLen) \cup StringsOver({"a", "-"}, MaxNameLen) :
     str[1] = "a" /\ str[Len(str)] = "a"}

\* (branch prefix, agent letter, task)
Triples == [prefix : NameStrings, letter : {get_letter(k) : k \in 0..1}, task : NameStrings]

\* two inputs of the naming scheme, nothing derived yet; no command is running
NamingInit ==
  /\ naming \in [a : Triples, b : Triples, out : {<<>>}]
  /\ tasks = TaskList(1)
  /\ branches = {} /\ dirs = {} /\ subinit = {} /\ idname = {} /\ idemail = {}
  /\ rootDir = FALSE
  /\ session = NoSession
  /\ cmd = "none" /\ start_codex = FALSE /\ keep_flag = FALSE
  /\ pc = "naming"
  /\ i = 0 /\ branch_rc = 0 /\ log = <<>>
  /\ start = Snapshot
  /\ prev = NoRun
  /\ nfail = 0

\* branch and wt_dir as the loops derive them, for both inputs
NamingDerive ==
  /\ pc = "naming"
  /\ naming.out = <<>>
  /\ naming' =
       [naming EXCEPT !.out =
          [a |-> [branch |-> BranchName(naming.a.prefix, naming.a.letter, naming.a.task),
                  wt_dir |-> WtDirName(Repo, naming.a.prefix, naming.a.letter,
                                       naming.a.task)],
           b |-> [branch |-> BranchName(naming.b.prefix, naming.b.letter, naming.b.task),
                  wt_dir |-> WtDirName(Repo, naming.b.prefix, naming.b.letter,
                                       naming.b.task)]]]
  /\ UNCHANGED <<ext, args, pc, i, branch_rc, log, start, prev, nfail>>

NamingSpec == NamingInit /\ [][NamingDerive]_vars

\* C12: two distinct (branch prefix, agent letter, task) triples get different
\* branch names and, for the same project and worktree root, different
\* workspace paths.
C12_NamingInjective ==
  (naming # <<>> /\ naming.out # <<>> /\ naming.a # naming.b)
    => /\ naming.out.a.branch # naming.out.b.branch
       /\ naming.out.a.wt_dir # naming.out.b.wt_dir

\* before call j of the run in progress, the check op on task k answered res
Observed(j, op, k, res) ==
  \E h \in 1..(j - 1) : log[h].op = op /\ log[h].task = k /\ log[h].res = res

\* C13: every mutating call follows an existence check of the same run on the
\* resource it mutates: worktree add follows show-ref and exists() answering
\* "absent" for its task and new-session follows has-session answering
\* "absent"; kill-session, worktree remove and branch -D follow has-session,
\* exists() and show-ref answering "present".
C13_ChecksGuardMutations ==
  \A j \in LogIdx :
    /\ log[j].op \in {"worktree-add-b", "worktree-add"}
         => /\ Observed(j, "show-ref", log[j].task, "absent")
            /\ Observed(j, "exists", log[j].task, "absent")
    /\ log[j].op = "new-session" => Observed(j, "has-session", -1, "absent")
    /\ log[j].op = "kill-session" => Observed(j, "has-session", -1, "present")
    /\ log[j].op = "worktree-remove" => Observed(j, "exists", log[j].task, "present")
    /\ log[j].op = "branch-D" => Observed(j, "show-ref", log[j].task, "present")

\* C14: in a deploy run, a task whose branch is absent and whose workspace
\* directory exists gets no worktree add, no submodule update and no git
\* config; finding the directory raises nothing, and the run goes on with the
\* next task.
C14_ExistingDirSkipped ==
  cmd = "deploy" =>
    \A k \in Named :
      (Branch(k) \notin start.branches /\ WtDir(k) \in start.dirs) =>
        /\ ~IssuedFor(VcMutating, k)
        /\ Branch(k) \notin branches
        /\ \A j \in LogIdx :
             log[j] = Entry("exists", k, "present", <<>>) =>
               IF j = Len(log)
                 THEN pc \in {"d_loop", "d_branch", "d_session"} /\ i = k + 1
                 ELSE log[j + 1].task # k

\* a deploy run that went on to the second task after finding the first task's
\* directory without its branch
C14_Witness ==
  /\ cmd = "deploy"
  /\ N = MaxTasks
  /\ Branch(0) \notin start.branches
  /\ WtDir(0) \in start.dirs
  /\ IssuedFor({"exists"}, 0)
  /\ IssuedFor({"show-ref"}, 1)

\* the calls of the run in progress that are one of ops
Calls(ops) == {j \in LogIdx : log[j].op \in ops}

\* the calls of a deploy run that build or attach the session
LayoutCalls == TmuxCalls \ {"kill-session"}

\* the calls of a deploy run made for one task's workspace
WorkspaceCalls == {"show-ref", "exists"} \cup VcMutating

\* every session-layout call of a deploy run comes after the workspace-level
\* calls of every task: each task had its branch check, and no workspace-level
\* call follows
LayoutAfterWorkspaces ==
  \A j \in Calls(LayoutCalls) :
    /\ \A k \in 0..(N - 1) : \E h \in 1..(j - 1) : log[h].op = "show-ref" /\ log[h].task = k
    /\ \A h \in Calls(WorkspaceCalls) : h < j

\* C15 as stated: in every deploy run no session-layout call is issued before
\* the workspace-level steps of every task have finished, and a run that has
\* ended issued new-session exactly once.
C15_SessionOncePerRun ==
  cmd = "deploy" =>
    /\ LayoutAfterWorkspaces
    /\ Ended => Cardinality(Calls({"new-session"})) = 1

\* C15 amended: no session-layout call is issued before the workspace-level
\* steps of every task have finished; new-session is issued at most once per
\* run, it is the first session-layout call, and a run that reaches attach
\* issued it exactly once.
C15_SessionAtMostOnce ==
  cmd = "deploy" =>
    /\ LayoutAfterWorkspaces
    /\ Cardinality(Calls({"new-session"})) <= 1
    /\ \A j \in Calls(LayoutCalls) :
         \E h \in Calls({"new-session"}) : h <= j
    /\ pc = "done" => Cardinality(Calls({"new-session"})) = 1

\* a deploy run of two tasks that configured both workspaces, created the
\* session and went on to the windows
C15_Witness ==
  /\ cmd = "deploy"
  /\ N = MaxTasks
  /\ \A k \in 0..(N - 1) :
       \E j \in LogIdx : log[j] = Entry("config-email", k, "ok", <<>>)
  /\ Issued({"new-session"})
  /\ Issued({"new-window"})
\* after call j of a destroy run, task k had its workspace looked at, and
\* removed when it was found
WorkspaceHandled(k, j) ==
  \E h \in (j + 1)..Len(log) :
    /\ log[h].op = "exists" /\ log[h].task = k
    /\ log[h].res = "present" =>
         /\ h < Len(log)
         /\ log[h + 1].op = "worktree-remove" /\ log[h + 1].task = k

\* after call j of a destroy run, task k had its branch looked at and deleted
\* when it was found, unless branches are kept
BranchHandled(k, j) ==
  \/ keep_branches
  \/ \E h \in (j + 1)..Len(log) :
       /\ log[h].op = "show-ref" /\ log[h].task = k
       /\ log[h].res = "present" =>
            /\ h < Len(log)
            /\ log[h + 1].op = "branch-D" /\ log[h + 1].task = k

C17_SessionCheckedOnceFirst ==
  cmd = "destroy" =>
    /\ Cardinality(Calls({"has-session"})) <= 1
    /\ pc # "x_has" => Calls({"has-session"}) = {1}
    /\ Calls({"kill-session"}) \subseteq {2}
    /\ Issued({"kill-session"}) => log[1].res = "present"
    /\ \A j \in Calls({"exists", "worktree-remove", "show-ref", "branch-D"}) :
         /\ \A h \in Calls({"has-session", "kill-session"}) : h < j
         /\ Issued({"has-session"})
         /\ log[1].res = "present" => Issued({"kill-session"})

\* a destroy run of two tasks that found the session, killed it and removed
\* both workspaces
C17_Witness ==
  /\ cmd = "destroy"
  /\ pc = "done"
  /\ N = MaxTasks
  /\ log[1] = Entry("has-session", -1, "present", <<>>)
  /\ log[2] = Entry("kill-session", -1, "ok", <<>>)
  /\ \A k \in 0..(N - 1) :
       \E j \in LogIdx : log[j] = Entry("worktree-remove", k, "ok", <<>>)
\* the workspace of task k has its submodules and its git identity
Configured(k) ==
  /\ WtDir(k) \in subinit
  /\ <<WtDir(k), Branch(k)>> \in idname
  /\ <<WtDir(k), Email(Branch(k))>> \in idemail

\* C18: when a deploy run that follows an aborted deploy run with the same
\* arguments reaches attach, every task workspace that exists has its
\* submodules initialized and its identity configured.
C18_SetupCompletesOnRerun ==
  ( /\ cmd = "deploy"
    /\ pc = "done"
    /\ prev.cmd = "deploy"
    /\ prev.result = "failed"
    /\ prev.start_codex = start_codex )
    => \A k \in Named : WtDir(k) \in dirs => Configured(k)
SendKeys == {"send-keys-cd", "send-keys-lazygit", "send-keys-codex", "send-keys-prompt"}

\* the send-keys calls of the run in progress addressed to pane 1 of task k's window
RightPaneKeys(k) ==
  {j \in LogIdx : log[j].op \in SendKeys /\ log[j].tgt = <<WinTarget(k), 1>>}

\* the run in progress created the session
SessionOfThisRun == \E j \in LogIdx : log[j].op = "new-session" /\ log[j].res = "ok"

\* C19: in a deploy run with --start-codex, pane 1 of a task's window is sent at
\* most two keys, codex and right after it the prompt, both after the split of
\* that window, and a run that reaches attach sent exactly these two to every
\* task; in a deploy run without the flag no send-keys names a pane 1, and no
\* pane after the first of any window of the session it created received keys.
C19_RightPaneGated ==
  cmd = "deploy" =>
    IF start_codex
    THEN \A k \in Named :
           /\ Cardinality(RightPaneKeys(k)) <= 2
           /\ \A j \in RightPaneKeys(k) :
                /\ log[j].task = k
                /\ \E s \in 1..(j - 1) :
                     log[s] = Entry("split-window", k, "ok", <<WinTarget(k)>>)
                /\ \/ log[j].op = "send-keys-codex"
                   \/ /\ log[j].op = "send-keys-prompt"
                      /\ log[j - 1] = Entry("send-keys-codex", k, "ok", <<WinTarget(k), 1>>)
           /\ pc = "done" =>
                /\ Cardinality(RightPaneKeys(k)) = 2
                /\ HasPane(session, WinTarget(k), 1)
                /\ session.windows[WinTarget(k) + 1].panes[2].keys
                     = << <<"codex">>, <<"prompt">> >>
    ELSE /\ \A j \in LogIdx : log[j].op \in SendKeys => Len(log[j].tgt) = 1
         /\ ~Issued({"send-keys-codex", "send-keys-prompt"})
         /\ SessionOfThisRun =>
              \A w \in 1..Len(session.windows) :
                \A p \in 2..Len(session.windows[w].panes) :
                  session.windows[w].panes[p].keys = <<>>

\* a deploy run with --start-codex of two tasks that reached attach with codex
\* and the prompt in the right pane of the second window
C19_Witness ==
  /\ cmd = "deploy"
  /\ start_codex
  /\ pc = "done"
  /\ N = MaxTasks
  /\ Cardinality(RightPaneKeys(1)) = 2
  /\ session.windows[2].panes[2].keys = << <<"codex">>, <<"prompt">> >>
\* C20: a deploy run issues attach-session at most once, as its last call, and
\* only after the window of every task was made (renamed for the first task,
\* created for the others) and split; the session it attaches to has one
\* window of two panes per task.
C20_AttachOnceLast ==
  cmd = "deploy" =>
    /\ Cardinality(Calls({"attach-session"})) <= 1
    /\ \A j \in Calls({"attach-session"}) :
         /\ j = Len(log)
         /\ pc \in {"done", "failed"}
         /\ \A k \in 0..(N - 1) :
              /\ \E h \in 1..(j - 1) :
                   /\ log[h].op = IF k = 0 THEN "rename-window" ELSE "new-window"
                   /\ log[h].task = k
                   /\ log[h].res = "ok"
              /\ \E h \in 1..(j - 1) :
                   log[h] = Entry("split-window", k, "ok", <<WinTarget(k)>>)
         /\ Len(session.windows) = N
         /\ \A w \in 1..N : Len(session.windows[w].panes) = 2

\* a deploy run of two tasks that attached
C20_Witness ==
  /\ cmd = "deploy"
  /\ pc = "done"
  /\ N = MaxTasks
  /\ log[Len(log)] = Entry("attach-session", -1, "ok", <<>>)
  /\ Len(session.windows) = MaxTasks
\* the calls of a deploy run that make or wire a task's window at its workspace path
WindowCalls == {"rename-window", "new-window", "send-keys-cd", "split-window"}

\* C21: whenever a deploy run has made or wired the window of a task
\* (rename-window or new-window, cd, split-window), the workspace directory of
\* that task exists. A deploy run removes no directory, so the directory of a
\* window call exists now exactly when it existed at the call.
C21_WindowDirExists ==
  cmd = "deploy" =>
    \A j \in Calls(WindowCalls) : WtDir(log[j].task) \in dirs
\* the branches and workspace directories whose names the run derives from its task list
ListBranches == {Branch(k) : k \in Named}
ListDirs == {WtDir(k) : k \in Named}

\* a step leaves alone every branch and every workspace (directory, submodules,
\* identity) whose name is not derived from the task list
OthersUnchanged ==
  /\ branches' \ ListBranches = branches \ ListBranches
  /\ dirs' \ ListDirs = dirs \ ListDirs
  /\ subinit' \ ListDirs = subinit \ ListDirs
  /\ {e \in idname' : e[1] \notin ListDirs} = {e \in idname : e[1] \notin ListDirs}
  /\ {e \in idemail' : e[1] \notin ListDirs} = {e \in idemail : e[1] \notin ListDirs}

\* a step of a deploy run removes no workspace, deletes no branch and kills no
\* session, and the run issued no call that does
DeployOnlyCreates ==
  /\ branches \subseteq branches'
  /\ dirs \subseteq dirs'
  /\ subinit \subseteq subinit'
  /\ session.exists => session'.exists
  /\ ~Issued(DestroyMutating)

\* a step of a destroy run creates no branch, no workspace, no session and no
\* window, and the run issued no call that does
DestroyOnlyRemoves ==
  /\ branches' \subseteq branches
  /\ dirs' \subseteq dirs
  /\ subinit' \subseteq subinit
  /\ idname' \subseteq idname
  /\ idemail' \subseteq idemail
  /\ session' \in {session, NoSession}
  /\ rootDir' = rootDir
  /\ ~Issued(VcMutating \cup LayoutCalls \cup {"mkdir"})

\* C22: every step of a deploy run only adds (no workspace removed, no branch
\* deleted, no session killed), every step of a destroy run only removes (no
\* branch, workspace, session or window created), and no step of either changes
\* a branch or a workspace whose name is not derived from the run's task list.
C22_PathsStayInDirection ==
  [][ /\ cmd = "deploy" => DeployOnlyCreates
      /\ cmd = "destroy" => DestroyOnlyRemoves
      /\ OthersUnchanged ]_vars

\* a destroy run of a one-task list that removed the task's workspace and ended,
\* after a deploy run that reached attach, with the branch and the workspace of
\* a task outside the list still there
C22_Witness ==
  /\ N = 1
  /\ prev.cmd = "deploy"
  /\ prev.result = "done"
  /\ cmd = "destroy"
  /\ pc = "done"
  /\ \E j \in LogIdx : log[j] = Entry("worktree-remove", 0, "ok", <<>>)
  /\ \E j \in LogIdx : log[j] = Entry("kill-session", -1, "ok", <<>>)
  /\ UBranch(1) \in branches \ ListBranches
  /\ UDir(1) \in dirs \ ListDirs
====
